---------------------------- MODULE Spec2Model ----------------------------
(***************************************************************************)
(* Model of bot.py: the per-chat conversation store (user_conversations)   *)
(* and the four handlers start_command, help_command, new_command and      *)
(* handle_message.                                                         *)
(*                                                                         *)
(* The handlers are coroutines run by one asyncio event loop.  A coroutine *)
(* keeps the loop until it reaches an `await`; the only awaits in bot.py   *)
(* are the `await update.message.reply_text(...)` calls.  The call to      *)
(* openai.ChatCompletion.create is a plain (blocking) call.  The variable  *)
(* `running` is the handler run that holds the loop (0: none).             *)
(*                                                                         *)
(* Python lists are objects: `conversation_history = user_conversations[   *)
(* chat_id]` binds the local name to the stored list itself, so an append  *)
(* through the local name changes the stored list, while a slice           *)
(* (`x[-N:]`) builds a new list.  A run records in `aliased` whether its   *)
(* local name still denotes the stored list of its chat.                   *)
(***************************************************************************)
EXTENDS Integers, Sequences, FiniteSets, TLC

\* ------------------------------------------------------------------ bounds
\* Number of handler runs that can exist at the same time.
MaxRuns == 2
\* Number of text messages dispatched over a behaviour.
MaxMsgs == 2

\* --------------------------------------------------------------- constants
MAX_CONTEXT_MESSAGES == 10

ChatIds == {"A", "B"}
\* The reply the completion service generates for the request of user text u.
ReplyTo(u) == "re:" \o u
\* What the completion call, or reading its response, may raise.
Exceptions == {"Timeout", "APIError", "KeyError"}

\* The fixed texts of the handlers.
welcome_text ==
    "Hello! I'm your AI Therapist Bot. I am here to listen and offer supportive responses.\n\nYou can talk to me about anything on your mind, and I'll do my best to help. If you need more detailed instructions, type /help."
help_text ==
    "Here are some commands you can use:\n\n/start - Welcome message.\n/help - This help message.\n/new - Reset your conversation context.\n\nOtherwise, just type your message, and I'll reply!"
reset_text == "Conversation context has been reset. Feel free to start anew!"
apology_text ==
    "I'm sorry, but I'm having trouble connecting to my brain right now. Please try again later."
system_prompt ==
    "You are a supportive, empathetic AI therapist. You listen attentively and provide helpful, gentle, and understanding responses. You are not a medical professional, but you offer a comforting presence and coping strategies."

VARIABLES
    user_conversations,  \* dict chat_id -> list of turns (a function on the ids present)
    run,                 \* the handler runs: position and local variables of each
    running,             \* the run that holds the event loop, 0 when none does
    msgs                 \* number of text messages dispatched so far

vars == <<user_conversations, run, running, msgs>>

\* ----------------------------------------------------------------- helpers
Turn(role, content) == [role |-> role, content |-> content]

\* A slice one too long, s[-(n + 1):].
LastN_OneMore(s, n) ==
    IF Len(s) <= n + 1 THEN s ELSE SubSeq(s, Len(s) - n, Len(s))

\* A slice from the wrong end, s[:n]: the oldest n elements.
LastN_Oldest(s, n) == IF Len(s) <= n THEN s ELSE SubSeq(s, 1, n)

\* Python's s[-n:] for n > 0: the last n elements, the whole list when shorter.
LastN(s, n) == IF Len(s) <= n THEN s ELSE SubSeq(s, Len(s) - n + 1, Len(s))

\* The text of the k-th text message of a behaviour.
TextOf(k) == ToString(k)

\* The call awaited (an asynchronous client): the loop is given away.
CompletionCallSuspends_Awaited == TRUE

\* Whether the completion call gives the event loop away while it is in
\* flight.  openai.ChatCompletion.create(...) is called without await.
CompletionCallSuspends == FALSE

\* The live handler runs, in the order of their dispatch.
Runs == DOMAIN run

\* The local state of a handler run of kind k for chat c with text u as it
\* starts.
NewRun(k, c, u) ==
    [pc |-> "start", kind |-> k, chat_id |-> c, user_text |-> u,
     aliased |-> FALSE, conversation_history |-> <<>>,
     messages_for_openai |-> <<>>, ai_reply |-> "", outcome |-> "none",
     e |-> "", pre |-> <<>>, sent |-> <<>>]

\* A handler that catches the API's own error class only.
Caught_APIErrorOnly(e) == e = "APIError"

\* A call made outside any try block: nothing is caught.
Caught_Nothing(e) == FALSE

\* `except Exception as e` (line 142): every exception of the completion call
\* is an Exception and is caught.
Caught(e) == e \in Exceptions

\* The runs without run t, which has returned.
Without(rs, t) == [i \in 1..(Len(rs) - 1) |-> IF i < t THEN rs[i] ELSE rs[i + 1]]

\* The list the local name conversation_history of run t denotes.
History(t) ==
    IF run[t].aliased THEN user_conversations[run[t].chat_id]
    ELSE run[t].conversation_history

\* The stored list of chat c, the empty list when c has no entry.
Stored(c) == IF c \in DOMAIN user_conversations THEN user_conversations[c] ELSE <<>>

\* One list bound to every entry.
Assign_Shared(c, h) == [d \in (DOMAIN user_conversations) \cup {c} |-> h]

\* user_conversations[c] = h: the entry is bound to the list h.
Assign(c, h) ==
    [d \in (DOMAIN user_conversations) \cup {c} |->
        IF d = c THEN h ELSE user_conversations[d]]

\* The runs rs once user_conversations[c] is bound to a new list: a run whose
\* local name denoted the old list of c keeps that old list, which is no
\* longer the stored one.
Rebind(rs, c) ==
    [u \in DOMAIN rs |->
        IF rs[u].aliased /\ rs[u].chat_id = c
        THEN [rs[u] EXCEPT !.aliased = FALSE,
                           !.conversation_history = user_conversations[c]]
        ELSE rs[u]]

\* update.message.reply_text(text) in a run for chat c that has sent the
\* messages `sent`: one more outbound message, to the chat of the update.
Emit(sent, c, text) == Append(sent, [to |-> c, text |-> text])

\* -------------------------------------------------------------------- Init
Init ==
    /\ user_conversations = << >>
    /\ run = << >>
    /\ running = 0
    /\ msgs = 0

\* ---------------------------------------------------------------- dispatch
\* The application hands an update to its handler (main, lines 173-176): a
\* command starts start_command, help_command or new_command, any other text
\* starts handle_message.  The handler coroutine is started by the event
\* loop, so no run holds the loop at that moment, and it runs at once up to
\* its first await.
CanDispatch ==
    /\ running = 0
    /\ Len(run) < MaxRuns

\* The index of the run being dispatched.
New == Len(run) + 1

\* ----------------------------------------------------------- start_command
\* Lines 62-67: the greeting is sent and the coroutine waits for the send.
StartReply(c) ==
    /\ CanDispatch
    /\ run' = Append(run, [NewRun("start", c, "") EXCEPT
                               !.sent = Emit(<<>>, c, welcome_text),
                               !.pc = "awaiting"])
    /\ UNCHANGED <<user_conversations, running, msgs>>

\* The entry is bound to a new empty list whether or not the chat has one.
StartInit_Always(t) ==
    /\ running = 0
    /\ run[t].pc = "awaiting" /\ run[t].kind = "start"
    /\ LET c == run[t].chat_id IN
       /\ user_conversations' = Assign(c, <<>>)
       /\ run' = Without(Rebind(run, c), t)
    /\ UNCHANGED <<running, msgs>>

\* Lines 70-72: after the send, the entry is created when the chat has none,
\* and the handler returns.
StartInit(t) ==
    /\ running = 0
    /\ run[t].pc = "awaiting" /\ run[t].kind = "start"
    /\ LET c == run[t].chat_id IN
       IF c \notin DOMAIN user_conversations
       THEN /\ user_conversations' = Assign(c, <<>>)
            /\ run' = Without(Rebind(run, c), t)
       ELSE /\ run' = Without(run, t)
            /\ UNCHANGED user_conversations
    /\ UNCHANGED <<running, msgs>>

\* ------------------------------------------------------------ help_command
\* Lines 79-86.
HelpReply(c) ==
    /\ CanDispatch
    /\ run' = Append(run, [NewRun("help", c, "") EXCEPT
                               !.sent = Emit(<<>>, c, help_text),
                               !.pc = "awaiting"])
    /\ UNCHANGED <<user_conversations, running, msgs>>

\* ------------------------------------------------------------- new_command
\* The entry is removed (user_conversations.pop(chat_id, None)) instead of
\* being bound to an empty list.
NewReset_Pop(c) ==
    /\ CanDispatch
    /\ user_conversations' =
          [d \in DOMAIN user_conversations \ {c} |-> user_conversations[d]]
    /\ run' = Append(Rebind(run, c), [NewRun("new", c, "") EXCEPT
                               !.sent = Emit(<<>>, c, reset_text),
                               !.pc = "awaiting"])
    /\ UNCHANGED <<running, msgs>>

\* The guard of start_command copied over: an existing list is kept.
NewReset_IfAbsent(c) ==
    /\ CanDispatch
    /\ user_conversations' =
          (IF c \in DOMAIN user_conversations THEN user_conversations
           ELSE Assign(c, <<>>))
    /\ run' = Append(run, [NewRun("new", c, "") EXCEPT
                               !.sent = Emit(<<>>, c, reset_text),
                               !.pc = "awaiting"])
    /\ UNCHANGED <<running, msgs>>

\* Lines 93-95: the entry is bound to a new empty list, then the
\* confirmation is sent.
NewReset(c) ==
    /\ CanDispatch
    /\ user_conversations' = Assign(c, <<>>)
    /\ run' = Append(Rebind(run, c), [NewRun("new", c, "") EXCEPT
                               !.sent = Emit(<<>>, c, reset_text),
                               !.pc = "awaiting"])
    /\ UNCHANGED <<running, msgs>>

\* ---------------------------------------------------------- handle_message
\* Lines 103-113: the entry is created when absent and the local name
\* conversation_history is bound to the stored list.
Load(c) ==
    /\ CanDispatch
    /\ msgs < MaxMsgs
    /\ msgs' = msgs + 1
    /\ LET f == [NewRun("text", c, TextOf(msgs + 1)) EXCEPT
                    !.pc = "append", !.aliased = TRUE, !.pre = Stored(c)]
       IN
       IF c \notin DOMAIN user_conversations
       THEN /\ user_conversations' = Assign(c, <<>>)
            /\ run' = Append(Rebind(run, c), f)
       ELSE /\ run' = Append(run, f)
            /\ UNCHANGED user_conversations
    /\ running' = New

\* list.append(x) through the local name of run t: in place.
AppendInPlace(t, x, pc) ==
    IF run[t].aliased
    THEN /\ user_conversations' =
              [user_conversations EXCEPT ![run[t].chat_id] = Append(@, x)]
         /\ run' = [run EXCEPT ![t].pc = pc]
    ELSE /\ run' = [run EXCEPT ![t].conversation_history = Append(@, x),
                               ![t].pc = pc]
         /\ UNCHANGED user_conversations

\* Line 116.
AppendUser(t) ==
    /\ running = t
    /\ run[t].pc = "append"
    /\ AppendInPlace(t, Turn("user", run[t].user_text), "truncate")
    /\ UNCHANGED <<running, msgs>>

\* The history is sent whole: no truncation before the request.
Truncate_None(t) ==
    /\ running = t
    /\ run[t].pc = "truncate"
    /\ run' = [run EXCEPT ![t].pc = "build"]
    /\ UNCHANGED <<user_conversations, running, msgs>>

\* Lines 119-120: a list longer than the maximum is replaced, under the
\* local name only, by a new list of its last MAX_CONTEXT_MESSAGES elements.
Truncate(t) ==
    /\ running = t
    /\ run[t].pc = "truncate"
    /\ run' = IF Len(History(t)) > MAX_CONTEXT_MESSAGES
              THEN [run EXCEPT ![t].conversation_history =
                                   LastN(History(t), MAX_CONTEXT_MESSAGES),
                               ![t].aliased = FALSE,
                               ![t].pc = "build"]
              ELSE [run EXCEPT ![t].pc = "build"]
    /\ UNCHANGED <<user_conversations, running, msgs>>

\* The system prompt put at the head of the history list itself
\* (conversation_history.insert(0, ...)) before the request is made of it.
BuildRequest_Inserted(t) ==
    /\ running = t
    /\ run[t].pc = "build"
    /\ LET h == <<Turn("system", system_prompt)>> \o History(t) IN
       /\ run' = [run EXCEPT ![t].messages_for_openai = h,
                             ![t].conversation_history =
                                 IF run[t].aliased THEN @ ELSE h,
                             ![t].pc = "call"]
       /\ user_conversations' =
             IF run[t].aliased
             THEN [user_conversations EXCEPT ![run[t].chat_id] = h]
             ELSE user_conversations
    /\ running' = IF CompletionCallSuspends THEN 0 ELSE t
    /\ UNCHANGED msgs

\* Lines 124-140: the request is the system prompt followed by the history;
\* the completion call is made.
BuildRequest(t) ==
    /\ running = t
    /\ run[t].pc = "build"
    /\ run' = [run EXCEPT ![t].messages_for_openai =
                              <<Turn("system", system_prompt)>> \o History(t),
                          ![t].pc = "call"]
    /\ running' = IF CompletionCallSuspends THEN 0 ELSE t
    /\ UNCHANGED <<user_conversations, msgs>>

\* Lines 136-141: the call returns and the first choice's content is taken.
CallReturns(t) ==
    /\ running = IF CompletionCallSuspends THEN 0 ELSE t
    /\ run[t].pc = "call"
    /\ run' = [run EXCEPT ![t].ai_reply = ReplyTo(run[t].user_text),
                          ![t].outcome = "ok", ![t].pc = "record"]
    /\ running' = t
    /\ UNCHANGED <<user_conversations, msgs>>

\* Lines 142-143: the call, or reading the response, raises e.  A caught
\* exception is logged and the handler goes on to the apology; any other
\* leaves the handler.
CallRaises(t, e) ==
    /\ running = IF CompletionCallSuspends THEN 0 ELSE t
    /\ run[t].pc = "call"
    /\ IF Caught(e)
       THEN /\ run' = [run EXCEPT ![t].outcome = "error", ![t].e = e,
                                  ![t].pc = "apologize"]
            /\ running' = t
       ELSE /\ run' = [run EXCEPT ![t].outcome = "error", ![t].e = e,
                                  ![t].pc = "raised",
                                  ![t].aliased = FALSE,
                                  ![t].conversation_history = <<>>,
                                  ![t].messages_for_openai = <<>>]
            /\ running' = 0
    /\ UNCHANGED <<user_conversations, msgs>>

\* An except branch that logs and returns without replying.
Apologize_Silent(t) ==
    /\ running = t
    /\ run[t].pc = "apologize"
    /\ run' = [run EXCEPT ![t].pc = "awaiting",
                          ![t].e = "",
                          ![t].aliased = FALSE,
                          ![t].conversation_history = <<>>,
                          ![t].messages_for_openai = <<>>]
    /\ running' = 0
    /\ UNCHANGED <<user_conversations, msgs>>

\* Lines 144-147: the apology is sent and the coroutine waits for the send.
Apologize(t) ==
    /\ running = t
    /\ run[t].pc = "apologize"
    /\ run' = [run EXCEPT ![t].sent = Emit(@, run[t].chat_id, apology_text),
                          ![t].pc = "awaiting",
                          ![t].e = "",
                          ![t].aliased = FALSE,
                          ![t].conversation_history = <<>>,
                          ![t].messages_for_openai = <<>>]
    /\ running' = 0
    /\ UNCHANGED <<user_conversations, msgs>>

\* The reply is not appended to the history.
RecordAssistant_Skipped(t) ==
    /\ running = t
    /\ run[t].pc = "record"
    /\ run' = [run EXCEPT ![t].pc = "commit"]
    /\ UNCHANGED <<user_conversations, running, msgs>>

\* Line 151.
RecordAssistant(t) ==
    /\ running = t
    /\ run[t].pc = "record"
    /\ AppendInPlace(t, Turn("assistant", run[t].ai_reply), "commit")
    /\ UNCHANGED <<running, msgs>>

\* The handler goes on to the reply without storing the local history.
Commit_Skipped(t) ==
    /\ running = t
    /\ run[t].pc = "commit"
    /\ run' = [run EXCEPT ![t].pc = "reply"]
    /\ UNCHANGED <<user_conversations, running, msgs>>

\* The entry is bound to the local history as it is, without the slice.
Commit_NoSlice(t) ==
    /\ running = t
    /\ run[t].pc = "commit"
    /\ LET c == run[t].chat_id IN
       /\ user_conversations' = Assign(c, History(t))
       /\ run' = [run EXCEPT ![t].pc = "reply"]
    /\ UNCHANGED <<running, msgs>>

\* Line 154: the entry is bound to a new list, the last
\* MAX_CONTEXT_MESSAGES elements of the local history.
Commit(t) ==
    /\ running = t
    /\ run[t].pc = "commit"
    /\ LET c == run[t].chat_id
           h == LastN(History(t), MAX_CONTEXT_MESSAGES)
       IN
       /\ user_conversations' = Assign(c, h)
       /\ run' = Rebind([run EXCEPT ![t].pc = "reply",
                                    ![t].aliased = FALSE,
                                    ![t].conversation_history = History(t)], c)
    /\ UNCHANGED <<running, msgs>>

\* Line 157: the reply is sent and the coroutine waits for the send.
Reply(t) ==
    /\ running = t
    /\ run[t].pc = "reply"
    /\ run' = [run EXCEPT ![t].sent = Emit(@, run[t].chat_id, run[t].ai_reply),
                          ![t].pc = "awaiting",
                          ![t].conversation_history = <<>>,
                          ![t].messages_for_openai = <<>>]
    /\ running' = 0
    /\ UNCHANGED <<user_conversations, msgs>>

\* The send is over and the handler returns (lines 86, 95, 148 and 157), or
\* the handler has been left by an exception: the run is over.
Return(t) ==
    /\ running = 0
    /\ \/ run[t].pc = "awaiting" /\ run[t].kind # "start"
       \/ run[t].pc = "raised"
    /\ run' = Without(run, t)
    /\ UNCHANGED <<user_conversations, running, msgs>>

\* -------------------------------------------------------------------- Next
Next ==
    \/ \E c \in ChatIds : StartReply(c)
    \/ \E t \in Runs : StartInit(t)
    \/ \E c \in ChatIds : HelpReply(c)
    \/ \E c \in ChatIds : NewReset(c)
    \/ \E c \in ChatIds : Load(c)
    \/ \E t \in Runs : AppendUser(t)
    \/ \E t \in Runs : Truncate(t)
    \/ \E t \in Runs : BuildRequest(t)
    \/ \E t \in Runs : CallReturns(t)
    \/ \E t \in Runs, e \in Exceptions : CallRaises(t, e)
    \/ \E t \in Runs : Apologize(t)
    \/ \E t \in Runs : RecordAssistant(t)
    \/ \E t \in Runs : Commit(t)
    \/ \E t \in Runs : Reply(t)
    \/ \E t \in Runs : Return(t)

Spec == Init /\ [][Next]_vars

\* The event loop runs the coroutine that holds it up to its next await, and
\* the blocking completion call returns or raises: a step of the run that
\* holds the loop is taken when one is possible.
RunStep ==
    \E t \in Runs :
        \/ AppendUser(t) \/ Truncate(t) \/ BuildRequest(t)
        \/ CallReturns(t) \/ (\E e \in Exceptions : CallRaises(t, e))
        \/ Apologize(t) \/ RecordAssistant(t) \/ Commit(t) \/ Reply(t)

FairSpec == Spec /\ WF_vars(RunStep)

\* ------------------------------------------------------- running sessions
\* A history of n turns a chat reaches from the empty store: alternating
\* user and assistant turns, each with a content of its own.
Prior(n) ==
    [k \in 1..n |-> Turn(IF k % 2 = 1 THEN "user" ELSE "assistant",
                         "p" \o ToString(k))]

\* The bot some time after construction: no handler run is live, and at most
\* one chat has an entry, holding up to MAX_CONTEXT_MESSAGES turns.
InitSessions ==
    /\ \/ user_conversations = << >>
       \/ \E c \in ChatIds, n \in 0..MAX_CONTEXT_MESSAGES :
             user_conversations = (c :> Prior(n))
    /\ run = << >>
    /\ running = 0
    /\ msgs = 0

SpecSessions == InitSessions /\ [][Next]_vars

\* ============================================================== properties
\* The newest n elements of s, oldest first.
KeepNewest(s, n) ==
    LET k == IF Len(s) < n THEN Len(s) ELSE n
    IN  [i \in 1..k |-> s[Len(s) - k + i]]

\* x is an element of the sequence s.
Holds(s, x) == \E i \in DOMAIN s : s[i] = x

UserTurn(t) == [role |-> "user", content |-> run[t].user_text]
AssistantTurn(t) == [role |-> "assistant", content |-> run[t].ai_reply]

\* Run t is a handle_message run between its load of user_conversations
\* [chat_id] (line 113) and its last access to it (line 154 on success, line
\* 116 and the test of line 119 on failure).
InWindow(t) ==
    /\ run[t].kind = "text"
    /\ run[t].pc \in {"append", "truncate", "build", "call", "record", "commit"}

\* No handler run is in progress.
AtRest == run = << >>

\* ---- C1
\* C1: whenever no handler run is in progress, the stored history of every
\* chat has at most MAX_CONTEXT_MESSAGES turns.
C1_BoundAtRest ==
    AtRest => \A c \in DOMAIN user_conversations :
                  Len(user_conversations[c]) <= MAX_CONTEXT_MESSAGES

\* ---- C2
\* C2: when the completion call of a handle_message run has failed, the
\* stored history is the pre-call history with the user turn appended,
\* trimmed from the front to at most MAX_CONTEXT_MESSAGES turns.
C2_FailureStoresBoundedUserTurn ==
    \A t \in Runs :
        run[t].pc = "apologize" =>
            Stored(run[t].chat_id) =
                KeepNewest(Append(run[t].pre, UserTurn(t)), MAX_CONTEXT_MESSAGES)

\* ---- C3
\* C3: a handle_message run on a stored history h of at most 10 turns whose
\* completion call returns r leaves, at its commit, the newest
\* MAX_CONTEXT_MESSAGES turns of h, the user turn and the assistant turn r,
\* in that order, and then sends exactly r, once, to its own chat.
C3_SuccessResult ==
    \A t \in Runs :
        (run[t].outcome = "ok" /\ Len(run[t].pre) <= MAX_CONTEXT_MESSAGES) =>
            /\ run[t].ai_reply = ReplyTo(run[t].user_text)
            /\ run[t].pc = "reply" =>
                  /\ Stored(run[t].chat_id) =
                        KeepNewest(run[t].pre \o <<UserTurn(t), AssistantTurn(t)>>,
                                   MAX_CONTEXT_MESSAGES)
                  /\ run[t].sent = << >>
            /\ run[t].pc = "awaiting" =>
                  run[t].sent = <<[to |-> run[t].chat_id, text |-> run[t].ai_reply]>>

\* A successful run on a full history has just committed.
C3_Witness ==
    \E t \in Runs :
        /\ run[t].pc = "reply" /\ run[t].outcome = "ok"
        /\ Len(run[t].pre) = MAX_CONTEXT_MESSAGES
        /\ Len(Stored(run[t].chat_id)) = MAX_CONTEXT_MESSAGES

\* ---- C4
\* The fixed text a command handler sends.
FixedText(k) ==
    CASE k = "start" -> welcome_text
      [] k = "help" -> help_text
      [] k = "new" -> reset_text

\* C4: a handler run sends nothing before its reply_text call and exactly one
\* message, to its own chat, from then on: the fixed text of its command, or
\* for a text message the generated reply on success and the apology on
\* failure; no run is left by an exception without having sent.
C4_ExactlyOneEmission ==
    \A t \in Runs :
        /\ run[t].pc \in {"awaiting", "raised"} =>
              /\ Len(run[t].sent) = 1
              /\ run[t].sent[1].to = run[t].chat_id
              /\ run[t].sent[1].text =
                    (IF run[t].kind # "text" THEN FixedText(run[t].kind)
                     ELSE IF run[t].outcome = "ok" THEN run[t].ai_reply
                     ELSE apology_text)
        /\ run[t].pc \notin {"awaiting", "raised"} => run[t].sent = << >>

\* Both a failed and a successful text run, each having sent its message.
C4_Witness ==
    \E t, u \in Runs :
        /\ run[t].pc = "awaiting" /\ run[t].outcome = "error"
        /\ run[u].pc = "awaiting" /\ run[u].outcome = "ok"
        /\ Len(run[t].sent) = 1 /\ Len(run[u].sent) = 1

\* ---- C5
\* C5: at most one handle_message run per chat is between its load and its
\* commit: two runs for the same chat are never both in that window.
C5_SingleWriter ==
    \A t, u \in Runs :
        (InWindow(t) /\ InWindow(u) /\ run[t].chat_id = run[u].chat_id) => t = u

\* Two text runs for the same chat are live, one of them in its window at
\* the completion call.
C5_Witness ==
    \E t, u \in Runs :
        /\ t # u
        /\ run[t].kind = "text" /\ run[u].kind = "text"
        /\ run[t].chat_id = run[u].chat_id
        /\ run[u].pc = "call"

\* ---- C6
\* Run u loaded the session of run t after t had recorded its user turn,
\* with no reset in between: the history u loaded extends the one t loaded
\* by t's user turn.
SameSession(t, u) ==
    /\ t < u
    /\ run[t].kind = "text" /\ run[u].kind = "text"
    /\ run[t].chat_id = run[u].chat_id
    /\ Len(run[u].pre) > Len(run[t].pre)
    /\ SubSeq(run[u].pre, 1, Len(run[t].pre) + 1) = Append(run[t].pre, UserTurn(t))

\* C6: two text runs live at the same time for one chat whose session held
\* at most 6 turns, both with a successful completion: when the later one
\* has committed, the stored history holds both user turns and both replies.
C6_NoLostUpdate ==
    \A t, u \in Runs :
        ( /\ SameSession(t, u)
          /\ Len(run[t].pre) <= 6
          /\ Len(run[u].pre) <= Len(run[t].pre) + 2
          /\ run[t].outcome = "ok" /\ run[t].pc \in {"reply", "awaiting"}
          /\ run[u].outcome = "ok" /\ run[u].pc = "reply" ) =>
            LET h == Stored(run[t].chat_id) IN
            /\ Holds(h, UserTurn(t)) /\ Holds(h, AssistantTurn(t))
            /\ Holds(h, UserTurn(u)) /\ Holds(h, AssistantTurn(u))
            /\ Len(h) = Len(run[t].pre) + 4

\* The two runs on a session of exactly 6 turns: the store ends with 10.
C6_Witness ==
    \E t, u \in Runs :
        /\ SameSession(t, u)
        /\ Len(run[t].pre) = 6
        /\ run[t].outcome = "ok" /\ run[t].pc = "awaiting"
        /\ run[u].outcome = "ok" /\ run[u].pc = "reply"
        /\ Len(Stored(run[t].chat_id)) = MAX_CONTEXT_MESSAGES

\* ---- C7
\* The entry of chat b differs before and after the step.
Changed(b) ==
    \/ (b \in DOMAIN user_conversations) # (b \in DOMAIN user_conversations')
    \/ /\ b \in DOMAIN user_conversations
       /\ b \in DOMAIN user_conversations'
       /\ user_conversations[b] # user_conversations'[b]

\* The step is a step of a handler run for chat b: the run it starts, the
\* run that holds the event loop, or the run that finishes.
ActsFor(b) ==
    \/ Len(run') > Len(run) /\ run'[Len(run')].chat_id = b
    \/ Len(run') = Len(run) /\ running # 0 /\ run[running].chat_id = b
    \/ Len(run') < Len(run) /\
          \E t \in DOMAIN run : run' = Without(run, t) /\ run[t].chat_id = b

\* C7: a step changes the entry of a chat, its history or its presence in
\* the store, only if it is a step of a handler run for that chat.
C7_SessionIsolation ==
    [][\A b \in ChatIds : Changed(b) => ActsFor(b)]_vars

\* A text run for one chat has committed while another chat holds turns.
C7_Witness ==
    \E t \in Runs, b \in DOMAIN user_conversations :
        /\ run[t].pc = "reply"
        /\ b # run[t].chat_id
        /\ Len(user_conversations[b]) > 0

\* ---- C8
\* C8: over a handle_message run whose completion call succeeds the stored
\* history changes once: until the run sends its reply, the store holds the
\* pre-run history or the final one (with both new turns), never another.
C8_SingleCommit ==
    \A t \in Runs :
        (run[t].kind = "text" /\ run[t].outcome = "ok" /\ run[t].pc # "awaiting") =>
            \/ Stored(run[t].chat_id) = run[t].pre
            \/ Stored(run[t].chat_id) =
                  KeepNewest(run[t].pre \o <<UserTurn(t), AssistantTurn(t)>>,
                             MAX_CONTEXT_MESSAGES)

\* ---- C9
\* C9 as stated: after a successful run on 10 stored turns the store holds 10
\* turns and the first is the 2nd-oldest original turn.
C9_FirstIsSecondOldest ==
    \A t \in Runs :
        (run[t].pc = "reply" /\ Len(run[t].pre) = MAX_CONTEXT_MESSAGES) =>
            /\ Len(Stored(run[t].chat_id)) = MAX_CONTEXT_MESSAGES
            /\ Stored(run[t].chat_id)[1] = run[t].pre[2]

\* C9 amended: after a successful run on 10 stored turns the store holds 10
\* turns and the first is the 3rd-oldest original turn, the two oldest
\* having been dropped.
C9_FirstIsThirdOldest ==
    \A t \in Runs :
        (run[t].pc = "reply" /\ Len(run[t].pre) = MAX_CONTEXT_MESSAGES) =>
            /\ Len(Stored(run[t].chat_id)) = MAX_CONTEXT_MESSAGES
            /\ Stored(run[t].chat_id)[1] = run[t].pre[3]
            /\ Stored(run[t].chat_id)[1] # run[t].pre[2]

\* A successful run on 10 stored turns has committed.
C9_Witness ==
    \E t \in Runs :
        /\ run[t].pc = "reply"
        /\ Len(run[t].pre) = MAX_CONTEXT_MESSAGES
        /\ Stored(run[t].chat_id)[MAX_CONTEXT_MESSAGES] = AssistantTurn(t)

\* ---- C10
\* C10: when the completion call raises, the handler is not left by the
\* exception; it has by then made the stored history exactly one turn longer
\* than before the run, the user turn last, and the one message it sends is
\* the apology.
C10_FailureScenario ==
    \A t \in Runs :
        run[t].outcome = "error" =>
            /\ run[t].pc \in {"apologize", "awaiting"}
            /\ run[t].pc = "apologize" =>
                  /\ run[t].sent = << >>
                  /\ Len(Stored(run[t].chat_id)) = Len(run[t].pre) + 1
                  /\ Stored(run[t].chat_id) = Append(run[t].pre, UserTurn(t))
            /\ run[t].pc = "awaiting" =>
                  run[t].sent = <<[to |-> run[t].chat_id, text |-> apology_text]>>

\* A timeout on a session of 10 turns, the apology sent.
C10_Witness ==
    \E t \in Runs :
        /\ run[t].outcome = "error" /\ run[t].pc = "awaiting"
        /\ Len(run[t].pre) = MAX_CONTEXT_MESSAGES
        /\ Len(Stored(run[t].chat_id)) = MAX_CONTEXT_MESSAGES + 1

\* ---- C11
\* The step starts a handler run of kind k for chat c.
Starts(k, c) ==
    /\ Len(run') = Len(run) + 1
    /\ run'[Len(run')].kind = k
    /\ run'[Len(run')].chat_id = c

\* The step is the one in which a start_command run for chat c makes its
\* existence check and returns.
StartChecks(c) ==
    \E t \in DOMAIN run :
        /\ run[t].kind = "start" /\ run[t].chat_id = c
        /\ run' = Without(run, t)

\* C11: new_command leaves its chat, present or absent and whatever it
\* stored, with an entry holding the empty history, touching no other entry,
\* and sends the confirmation text; on an empty history it gives the same
\* empty history again; and the load of a text message or the check of
\* start_command that finds the empty history reads it as empty and leaves
\* it empty.
C11_Reset ==
    [][\A c \in ChatIds :
          /\ Starts("new", c) =>
                /\ c \in DOMAIN user_conversations'
                /\ user_conversations'[c] = << >>
                /\ run'[Len(run')].sent = <<[to |-> c, text |-> reset_text]>>
                /\ \A d \in ChatIds \ {c} : ~Changed(d)
          /\ (Starts("text", c) /\ c \in DOMAIN user_conversations) =>
                /\ run'[Len(run')].pre = user_conversations[c]
                /\ user_conversations' = user_conversations
          /\ (StartChecks(c) /\ c \in DOMAIN user_conversations) =>
                user_conversations' = user_conversations
      ]_vars

\* new_command twice in a row on one chat: both runs have sent the
\* confirmation and the chat holds the empty history.
C11_Witness ==
    \E t, u \in Runs :
        /\ t < u
        /\ run[t].kind = "new" /\ run[u].kind = "new"
        /\ run[t].chat_id = run[u].chat_id
        /\ run[t].chat_id \in DOMAIN user_conversations
        /\ user_conversations[run[t].chat_id] = << >>

\* ---- C12
\* No turn of the list h has the role system.
NoSystemTurn(h) == \A i \in DOMAIN h : h[i].role # "system"

\* C12: no stored history of any chat ever holds a turn of role system, nor
\* does the history a run holds under its local name; the system turn is
\* the first element of the request built for the completion call and
\* occurs nowhere else in it.
C12_PersonaExclusion ==
    /\ \A c \in DOMAIN user_conversations : NoSystemTurn(user_conversations[c])
    /\ \A t \in Runs :
          /\ NoSystemTurn(run[t].conversation_history)
          /\ run[t].pc \in {"call", "record", "commit", "reply", "apologize"} =>
                /\ run[t].messages_for_openai[1] =
                      [role |-> "system", content |-> system_prompt]
                /\ NoSystemTurn(Tail(run[t].messages_for_openai))

\* A request with the system turn is in flight while its chat stores turns.
C12_Witness ==
    \E t \in Runs :
        /\ run[t].pc = "call"
        /\ run[t].messages_for_openai[1].role = "system"
        /\ Len(Stored(run[t].chat_id)) >= 3

\* ---- C13
\* The k-th text message has a handle_message run.
Handling(k) ==
    \E t \in Runs : run[t].kind = "text" /\ run[t].user_text = TextOf(k)

\* The run of the k-th text message has sent its one message, the reply or
\* the apology, and is at its end.
Acknowledged(k) ==
    \E t \in Runs :
        /\ run[t].kind = "text" /\ run[t].user_text = TextOf(k)
        /\ run[t].pc = "awaiting"
        /\ \/ run[t].outcome = "ok" /\
                 run[t].sent = <<[to |-> run[t].chat_id, text |-> run[t].ai_reply]>>
           \/ run[t].outcome = "error" /\
                 run[t].sent = <<[to |-> run[t].chat_id, text |-> apology_text]>>

\* C13: with the event loop running the handler and the completion call
\* returning or raising, every text message whose handle_message run has
\* started is eventually acknowledged by the reply or by the apology.
C13_EventualAcknowledgement ==
    \A k \in 1..MaxMsgs : Handling(k) ~> Acknowledged(k)

\* A text run is waiting in the completion call.
C13_Witness ==
    \E t \in Runs : run[t].kind = "text" /\ run[t].pc = "call" /\ run[t].sent = << >>

\* ---- C14
\* C14: the list passed to the completion call is the system turn followed
\* by the newest MAX_CONTEXT_MESSAGES entries of the history stored when the
\* run loaded it with the user turn appended, in order: its last element is
\* the new user turn and it has at most MAX_CONTEXT_MESSAGES + 1 elements.
C14_RequestPayload ==
    \A t \in Runs :
        run[t].pc = "call" =>
            LET m == run[t].messages_for_openai IN
            /\ m = <<[role |-> "system", content |-> system_prompt]>> \o
                       KeepNewest(Append(run[t].pre, UserTurn(t)),
                                  MAX_CONTEXT_MESSAGES)
            /\ m[Len(m)] = UserTurn(t)
            /\ Len(m) <= MAX_CONTEXT_MESSAGES + 1

\* The call is made for a history that was stored with more than
\* MAX_CONTEXT_MESSAGES entries.
C14_Witness ==
    \E t \in Runs :
        /\ run[t].pc = "call"
        /\ Len(run[t].pre) > MAX_CONTEXT_MESSAGES
        /\ Len(run[t].messages_for_openai) = MAX_CONTEXT_MESSAGES + 1

\* ---- C15
StartRunsOf(c) ==
    {t \in Runs : run[t].kind = "start" /\ run[t].chat_id = c}

\* A start_command run for chat c makes its existence check and returns.
StartEnds(c) == Cardinality(StartRunsOf(c)') < Cardinality(StartRunsOf(c))

\* C15: start_command changes nothing in the store when it sends the
\* greeting; at its existence check it creates an empty history for the
\* chat when the chat has none and leaves every other entry alone, and when
\* the chat has a history, whatever was handled since the greeting, it
\* leaves the whole store unchanged.
C15_WelcomeFrame ==
    [][\A c \in ChatIds :
          /\ Starts("start", c) => user_conversations' = user_conversations
          /\ StartEnds(c) =>
                IF c \in DOMAIN user_conversations
                THEN user_conversations' = user_conversations
                ELSE /\ DOMAIN user_conversations' =
                            DOMAIN user_conversations \cup {c}
                     /\ user_conversations'[c] = << >>
                     /\ \A d \in DOMAIN user_conversations :
                            user_conversations'[d] = user_conversations[d]
      ]_vars

\* A start_command run is between its greeting and its existence check, and
\* a text message for the same chat, handled after the greeting, has
\* committed a history.
C15_Witness ==
    \E t, u \in Runs :
        /\ t < u
        /\ run[t].kind = "start" /\ run[t].pc = "awaiting"
        /\ run[u].kind = "text" /\ run[u].chat_id = run[t].chat_id
        /\ run[u].pc = "awaiting" /\ run[u].outcome = "ok"
        /\ running = 0
        /\ Len(Stored(run[t].chat_id)) = 2

\* ---- C16
\* Run t sends its reply (line 157).
Replies(t) ==
    /\ t \in DOMAIN run' /\ run[t].pc = "reply" /\ run'[t].pc = "awaiting"

\* C16: when a run sends its reply, the stored history of its chat already
\* ends with the run's user turn followed by the assistant turn whose
\* content is the text being sent, and the send leaves the store unchanged.
C16_CommitBeforeEmit ==
    [][\A t \in Runs :
          Replies(t) =>
              LET h == Stored(run[t].chat_id) IN
              /\ Len(h) >= 2
              /\ h[Len(h) - 1] = UserTurn(t)
              /\ h[Len(h)] = AssistantTurn(t)
              /\ run'[t].sent =
                     <<[to |-> run[t].chat_id, text |-> h[Len(h)].content]>>
              /\ user_conversations' = user_conversations
      ]_vars

\* A run that loaded a full history is about to send its reply.
C16_Witness ==
    \E t \in Runs :
        /\ run[t].pc = "reply"
        /\ Len(run[t].pre) >= MAX_CONTEXT_MESSAGES
        /\ run[t].sent = << >>

\* ---- C17
\* Run n is a new_command run that stored the empty history after the text
\* run t of the same chat had loaded the history.
ResetAfterLoad(t, n) ==
    /\ t < n
    /\ run[t].kind = "text" /\ run[n].kind = "new"
    /\ run[t].chat_id = run[n].chat_id

\* C17: once new_command has stored the empty history for a chat, the
\* stored history of that chat holds no turn of a text message whose run
\* loaded the history before the reset.
C17_ResetNotUndone ==
    \A t, n \in Runs :
        ResetAfterLoad(t, n) =>
            LET h == Stored(run[t].chat_id) IN
            /\ ~Holds(h, UserTurn(t))
            /\ \A i \in DOMAIN h :
                   ~(h[i].role = "assistant" /\
                     h[i].content = ReplyTo(run[t].user_text))

\* A text run that committed its turns is still waiting for its send when a
\* reset of the same chat has been handled.
C17_Witness ==
    \E t, n \in Runs :
        /\ ResetAfterLoad(t, n)
        /\ run[t].outcome = "ok" /\ run[t].pc = "awaiting"
        /\ Len(run[t].sent) = 1
        /\ Len(run[n].sent) = 1
        /\ run[t].chat_id \in DOMAIN user_conversations
        /\ Stored(run[t].chat_id) = << >>

\* ---- C18
HelpRuns == {t \in Runs : run[t].kind = "help"}

\* A help_command run sends its text, or returns.
HelpActs ==
    \/ \E c \in ChatIds : Starts("help", c)
    \/ Cardinality(HelpRuns') < Cardinality(HelpRuns)

\* C18: a chat that has an entry in the store has one in every later state,
\* and a step of help_command leaves the store as it is.
C18_SessionsNeverDestroyed ==
    [][/\ DOMAIN user_conversations \subseteq DOMAIN user_conversations'
       /\ HelpActs => user_conversations' = user_conversations
      ]_vars

\* Both chats have an entry, one of them emptied by new_command, and a
\* help_command run has sent its text.
C18_Witness ==
    /\ DOMAIN user_conversations = ChatIds
    /\ \E t, n \in Runs :
           /\ run[t].kind = "help" /\ Len(run[t].sent) = 1
           /\ run[n].kind = "new" /\ Stored(run[n].chat_id) = << >>

\* ---- C19
\* Run t assigns the entry of its chat (line 154).
Commits(t) ==
    /\ t \in DOMAIN run' /\ run[t].pc = "commit" /\ run'[t].pc = "reply"

\* C19: whatever the length of the history a run loaded, right after its
\* commit the stored history of its chat has at most MAX_CONTEXT_MESSAGES
\* entries and its last two are the run's user turn and assistant turn.
C19_CommitRestoresBound ==
    [][\A t \in Runs :
          Commits(t) =>
              LET h == user_conversations'[run[t].chat_id] IN
              /\ Len(h) <= MAX_CONTEXT_MESSAGES
              /\ Len(h) >= 2
              /\ h[Len(h) - 1] = UserTurn(t)
              /\ h[Len(h)] = AssistantTurn(t)
      ]_vars

\* A run that loaded a history of more than MAX_CONTEXT_MESSAGES entries
\* has committed.
C19_Witness ==
    \E t \in Runs :
        /\ run[t].pc = "reply"
        /\ Len(run[t].pre) > MAX_CONTEXT_MESSAGES
        /\ Len(Stored(run[t].chat_id)) = MAX_CONTEXT_MESSAGES

=============================================================================
